---------------------------- MODULE Spec2Model ----------------------------
(***************************************************************************)
(* The optimizer core of fhk5: the Fold pass (src/src/opt_fold.rs), the    *)
(* fixed-point driver and the flag parser (src/src/optimize.rs), and the   *)
(* language table LangState (src/src/lang.rs).                             *)
(*                                                                         *)
(* Machine integers are scaled down so that they can be enumerated: the    *)
(* 32-bit immediate of an instruction is ImmBits wide and the i64 domain   *)
(* of the folder is WordBits = ImmBits + WideExtra wide.  The order of the *)
(* widths I8 < I16 < I32 = immediate < I64 = word is the program's.        *)
(***************************************************************************)
EXTENDS Integers, Sequences, FiniteSets, TLC

\* ------------------------------------------------------------------ bounds
ImmBits == 4
WideExtra == 2
MaxLen == 4
MaxCalls == 2
MaxAbsLen == 1
NumLangs == 4
MaxArgLen == 3

\* ------------------------------------------------------- program constants
MAX_ITER == 100

\* ------------------------------------------------------- machine integers
RECURSIVE Pow2(_)
Pow2(n) == IF n = 0 THEN 1 ELSE 2 * Pow2(n - 1)

WordBits == ImmBits + WideExtra

\* the width of a value type
Bits(ty) ==
    CASE ty = "I8"  -> ImmBits - 2
      [] ty = "I16" -> ImmBits - 1
      [] ty = "I32" -> ImmBits
      [] ty = "I64" -> WordBits

MinOf(w) == 0 - Pow2(w - 1)
MaxOf(w) == Pow2(w - 1) - 1

\* x reduced modulo 2^w, read as a signed two's-complement number
Wrap(x, w) == ((x + Pow2(w - 1)) % Pow2(w)) - Pow2(w - 1)

\* x reduced modulo 2^w, read as an unsigned number
ToUnsigned(x, w) == x % Pow2(w)

Abs(x) == IF x < 0 THEN 0 - x ELSE x

\* the machine's signed division: the quotient is truncated toward zero
TruncDiv(x, y) ==
    IF (x < 0) = (y < 0) THEN Abs(x) \div Abs(y) ELSE 0 - (Abs(x) \div Abs(y))

RECURSIVE IPow(_, _)
IPow(x, n) == IF n = 0 THEN 1 ELSE x * IPow(x, n - 1)

\* ------------------------------------------------- instruction encoding
ValueTypes == {"I8", "I16", "I32", "I64"}
ArithOps == {"ADD", "SUB", "MUL", "DIV", "UDIV", "POW"}

Ins(op, ty, a, b, c) == [op |-> op, ty |-> ty, a |-> a, b |-> b, c |-> c]

\* a KINT carries its value as the bit pattern of the immediate
Ins_KINT(ty, bc) == Ins("KINT", ty, 0, ToUnsigned(bc, ImmBits), 0)

\* a KINT64 carries the handle of its interned bytes; equal bytes have equal
\* handles, so the handle is modelled by the value it stands for
Ins_KINT64(ty, handle) == Ins("KINT64", ty, 0, handle, 0)

bc(ins) == ins.b

is_const(op) == op \in {"KINT", "KINT64"}
is_control(op) == op \in {"RET", "GOTO", "IF"}
is_cse(op) == op \in {"KINT", "KINT64", "PARAM", "MOV"} \cup ArithOps

\* the operand slots that hold instruction ids, left to right
inputs(op) ==
    CASE op \in ArithOps -> <<"a", "b">>
      [] op \in {"MOV", "RET", "IF"} -> <<"a">>
      [] OTHER -> <<>>

\* the operand slots that hold control successors, left to right
controls(op) ==
    CASE op = "GOTO" -> <<"a">>
      [] op = "IF" -> <<"b", "c">>
      [] OTHER -> <<>>

\* code vectors are indexed by InsId, the first id being 0
At(vec, id) == vec[id + 1]
Ids(vec) == 0 .. (Len(vec) - 1)

\* ----------------------------------------------------------- constants
kintvalue(ins) ==
    CASE ins.op = "KINT" -> Wrap(bc(ins), ImmBits)
      [] ins.op = "KINT64" -> bc(ins)

newkint(ty, value) ==
    IF value = Wrap(value, ImmBits)
    THEN Ins_KINT(ty, value)
    ELSE Ins_KINT64(ty, value)

\* the result of an operation that can panic
Ok(v) == [panic |-> "", v |-> v]
Panic(why) == [panic |-> why, v |-> 0]

\* an i64 operation: a build with overflow checks panics when the exact
\* result leaves the i64 range, a build without them wraps
Checked(exact, debug) ==
    IF exact = Wrap(exact, WordBits) THEN Ok(exact)
    ELSE IF debug THEN Panic("overflow")
    ELSE Ok(Wrap(exact, WordBits))

foldintarith(op, left, right, debug) ==
    CASE op = "ADD" -> Checked(left + right, debug)
      [] op = "SUB" -> Checked(left - right, debug)
      [] op = "MUL" -> Checked(left * right, debug)
      [] op = "DIV" ->
            IF right = 0 THEN Panic("divide by zero")
            ELSE IF left = MinOf(WordBits) /\ right = 0 - 1
                 THEN Panic("divide with overflow")
            ELSE Ok(TruncDiv(left, right))
      [] op = "UDIV" ->
            IF right = 0 THEN Panic("divide by zero")
            ELSE Ok(Wrap(ToUnsigned(left, WordBits) \div ToUnsigned(right, WordBits),
                         WordBits))
      [] OTHER -> Panic("unreachable")


\* ------------------------------------------------------------------ fold
\* ipat!(code, value; const)
ipat_const(code, value) == is_const(At(code, value).op)

\* ipat!(code, value; <literal>)
ipat_kint(code, value, kint) ==
    At(code, value).op = "KINT" /\ kint = bc(At(code, value))

Done(ins) == [status |-> "Done", ins |-> ins, id |-> 0]
Again(ins) == [status |-> "Again", ins |-> ins, id |-> 0]
New(id) == [status |-> "New", ins |-> Ins("NOP", "FX", 0, 0, 0), id |-> id]
Fail(why) == [status |-> why, ins |-> Ins("NOP", "FX", 0, 0, 0), id |-> 0]

\* the arm "fold constant arithmetic"
fold_const(code, ins, debug) ==
    LET left == At(code, ins.a)
        right == At(code, ins.b)
        ty == ins.ty
    IN  IF debug /\ (left.ty # ty \/ right.ty # ty)
        THEN Fail("debug_assert type")
        ELSE IF debug /\ ty \notin ValueTypes
        THEN Fail("debug_assert type")
        ELSE LET r == foldintarith(ins.op, kintvalue(left), kintvalue(right), debug)
             IN  IF r.panic # "" THEN Fail(r.panic) ELSE Done(newkint(ty, r.v))

\* fold_mov as it would be if the MOV were kept like any other instruction
fold_mov_kept(code, ins, debug) == Done(ins)

\* the arm "eliminate MOVs"
fold_mov(code, ins, debug) ==
    IF debug /\ At(code, ins.a).op = "MOV"
    THEN Fail("debug_assert mov")
    ELSE New(ins.a)

\* fold as it would be without the arm that sorts commutative operands
fold_unsorted(code, ins, debug) ==
    LET op == ins.op
    IN  CASE op \in ArithOps /\ ipat_const(code, ins.a) /\ ipat_const(code, ins.b) ->
                fold_const(code, ins, debug)
          [] OTHER ->
                IF op = "ADD" /\ ipat_kint(code, ins.b, 0) THEN New(ins.a)
                ELSE IF op \in {"MUL", "DIV", "UDIV"} /\ ipat_kint(code, ins.b, 1)
                THEN New(ins.a)
                ELSE IF op = "MUL" /\ ipat_kint(code, ins.b, 0)
                THEN Done(Ins_KINT(ins.ty, 0))
                ELSE IF op = "MOV" THEN fold_mov(code, ins, debug)
                ELSE Done(ins)

\* fold as it would be without the arms x+0, x*1, x/1 and x*0
fold_noident(code, ins, debug) ==
    LET op == ins.op
    IN  CASE op \in ArithOps /\ ipat_const(code, ins.a) /\ ipat_const(code, ins.b) ->
                fold_const(code, ins, debug)
          [] op \in {"ADD", "MUL"}
             /\ ~(ipat_const(code, ins.a) /\ ipat_const(code, ins.b))
             /\ (ipat_const(code, ins.a)
                 \/ (ins.a > ins.b /\ ~ipat_const(code, ins.b))) ->
                Again([ins EXCEPT !.a = ins.b, !.b = ins.a])
          [] OTHER ->
                IF op = "MOV" THEN fold_mov(code, ins, debug) ELSE Done(ins)

fold(code, ins, debug) ==
    LET op == ins.op
    IN  CASE op \in ArithOps /\ ipat_const(code, ins.a) /\ ipat_const(code, ins.b) ->
                fold_const(code, ins, debug)
          [] op \in {"ADD", "MUL"}
             /\ ~(ipat_const(code, ins.a) /\ ipat_const(code, ins.b))
             /\ (ipat_const(code, ins.a)
                 \/ (ins.a > ins.b /\ ~ipat_const(code, ins.b))) ->
                Again([ins EXCEPT !.a = ins.b, !.b = ins.a])
          [] OTHER ->
                IF op = "ADD" /\ ipat_kint(code, ins.b, 0) THEN New(ins.a)
                ELSE IF op \in {"MUL", "DIV", "UDIV"} /\ ipat_kint(code, ins.b, 1)
                THEN New(ins.a)
                ELSE IF op = "MUL" /\ ipat_kint(code, ins.b, 0)
                THEN Done(Ins_KINT(ins.ty, 0))
                ELSE IF op = "MOV" THEN fold_mov(code, ins, debug)
                ELSE Done(ins)

\* ----------------------------------------------------------------- visit
\* The Fold struct, with the panic (if any) that ended the run.
\* rewrites and foldcalls are bookkeeping: how often the rewrite of each old
\* id has been begun in this run, and the most calls of fold any one
\* instruction has needed.
FoldState(old_new, next, cse_map, code, panic) ==
    [old_new |-> old_new, next |-> next, cse_map |-> cse_map, code |-> code,
     panic |-> panic, rewrites |-> <<>>, foldcalls |-> 0]

\* Extending the queue by the control successors an instruction carries.
RECURSIVE extend(_, _, _)
extend(next, ins, slots) ==
    IF slots = <<>> THEN next
    ELSE extend(Append(next, ins[Head(slots)]), ins, Tail(slots))

\* visit_done as it would be without the lookup in the CSE table
visit_done_nocse(F, ins) ==
    LET F1 == IF is_control(ins.op)
              THEN [F EXCEPT !.next = extend(F.next, ins, controls(ins.op))]
              ELSE F
    IN  [F |-> [F1 EXCEPT !.code = Append(F1.code, ins)], new |-> Len(F1.code)]

\* visit_done as it would be if the control successors were not enqueued
visit_done_unqueued(F, ins) ==
    LET hit == {idx \in F.cse_map : At(F.code, idx) = ins}
        id == Len(F.code)
    IN  IF is_cse(ins.op)
        THEN IF hit # {}
             THEN [F |-> F, new |-> CHOOSE idx \in hit : TRUE]
             ELSE [F |-> [F EXCEPT !.code = Append(F.code, ins),
                                   !.cse_map = F.cse_map \cup {id}],
                   new |-> id]
        ELSE [F |-> [F EXCEPT !.code = Append(F.code, ins)], new |-> id]

\* FoldStatus::Done: enqueue the controls, then insert into the new code,
\* through the CSE table when the opcode allows it.
visit_done(F, ins) ==
    LET F1 == IF is_control(ins.op)
              THEN [F EXCEPT !.next = extend(F.next, ins, controls(ins.op))]
              ELSE F
        hit == {idx \in F1.cse_map : At(F1.code, idx) = ins}
        id == Len(F1.code)
    IN  IF is_cse(ins.op)
        THEN IF hit # {}
             THEN [F |-> F1, new |-> CHOOSE idx \in hit : TRUE]
             ELSE [F |-> [F1 EXCEPT !.code = Append(F1.code, ins),
                                    !.cse_map = F1.cse_map \cup {id}],
                   new |-> id]
        ELSE [F |-> [F1 EXCEPT !.code = Append(F1.code, ins)], new |-> id]

\* the loop around fold; calls counts the calls of fold made for this
\* instruction
\* F with n calls of fold for one instruction taken into foldcalls
counted(F, n) == [F EXCEPT !.foldcalls = IF n > @ THEN n ELSE @]

\* the operand slots whose instruction a call of fold reads from the new
\* code: the const pattern reads a, and b when a is a constant; the arms of
\* ADD, MUL, DIV and UDIV read b in any case; the debug assertion of the
\* MOV arm reads a
fold_reads(code, ins, debug) ==
    CASE ins.op \in {"ADD", "MUL", "DIV", "UDIV"} -> {"a", "b"}
      [] ins.op \in {"SUB", "POW"} ->
            IF ins.a < Len(code) /\ ipat_const(code, ins.a) THEN {"a", "b"}
            ELSE {"a"}
      [] ins.op = "MOV" -> IF debug THEN {"a"} ELSE {}
      [] OTHER -> {}

RECURSIVE visit_loop(_, _, _, _)
visit_loop(F, ins, debug, calls) ==
    IF \E s \in fold_reads(F.code, ins, debug) : ins[s] >= Len(F.code)
    THEN [F |-> counted([F EXCEPT !.panic = "index out of bounds"], calls + 1),
          new |-> 0, calls |-> calls + 1]
    ELSE
    LET r == fold(F.code, ins, debug)
    IN  CASE r.status = "Again" -> visit_loop(F, r.ins, debug, calls + 1)
          [] r.status = "New" ->
                [F |-> counted(F, calls + 1), new |-> r.id, calls |-> calls + 1]
          [] r.status = "Done" ->
                LET d == visit_done(F, r.ins)
                IN  [F |-> counted(d.F, calls + 1), new |-> d.new,
                     calls |-> calls + 1]
          [] OTHER -> [F |-> counted([F EXCEPT !.panic = r.status], calls + 1),
                       new |-> 0, calls |-> calls + 1]

RECURSIVE visit(_, _, _, _)
RECURSIVE visit_inputs(_, _, _, _, _)
\* visit_inputs as it would be if the operands were visited but kept their
\* old ids
visit_inputs_unmapped(F, func, ins, slots, debug) ==
    IF slots = <<>> THEN [F |-> F, ins |-> ins]
    ELSE LET r == visit(F, func, ins[Head(slots)], debug)
         IN  visit_inputs(r.F, func, ins, Tail(slots), debug)

visit_inputs(F, func, ins, slots, debug) ==
    IF slots = <<>> THEN [F |-> F, ins |-> ins]
    ELSE LET r == visit(F, func, ins[Head(slots)], debug)
         IN  visit_inputs(r.F, func, [ins EXCEPT ![Head(slots)] = r.new],
                          Tail(slots), debug)

\* visit as it would be without the early return on a set old_new entry
visit_unmemoized(F, func, id, debug) ==
    IF F.panic # "" THEN [F |-> F, new |-> 0]
    ELSE LET ins == At(func.code, id)
             r == visit_inputs([F EXCEPT !.rewrites[id + 1] = @ + 1], func, ins,
                               inputs(ins.op), debug)
         IN  IF r.F.panic # "" THEN [F |-> r.F, new |-> 0]
             ELSE LET l == visit_loop(r.F, r.ins, debug, 0)
                  IN  IF l.F.panic # "" THEN [F |-> l.F, new |-> 0]
                      ELSE [F |-> [l.F EXCEPT !.old_new[id + 1] = <<l.new>>],
                            new |-> l.new]

visit(F, func, id, debug) ==
    IF F.panic # "" THEN [F |-> F, new |-> 0]
    ELSE IF At(F.old_new, id) # <<>> THEN [F |-> F, new |-> At(F.old_new, id)[1]]
    ELSE LET ins == At(func.code, id)
             r == visit_inputs([F EXCEPT !.rewrites[id + 1] = @ + 1], func, ins,
                               inputs(ins.op), debug)
         IN  IF r.F.panic # "" THEN [F |-> r.F, new |-> 0]
             ELSE LET l == visit_loop(r.F, r.ins, debug, 0)
                  IN  IF l.F.panic # "" THEN [F |-> l.F, new |-> 0]
                      ELSE [F |-> [l.F EXCEPT !.old_new[id + 1] = <<l.new>>],
                            new |-> l.new]

\* ----------------------------------------------------------------- fixup
RECURSIVE fixup_ins(_, _, _)
fixup_ins(old_new, ins, slots) ==
    IF slots = <<>> THEN ins
    ELSE fixup_ins(old_new,
                   [ins EXCEPT ![Head(slots)] = At(old_new, ins[Head(slots)])[1]],
                   Tail(slots))

\* whether some unwrap of the fix-up meets an unset old_new entry
fixup_panics(F) ==
    \E k \in 1 .. Len(F.code) :
        \E j \in 1 .. Len(controls(F.code[k].op)) :
            At(F.old_new, F.code[k][controls(F.code[k].op)[j]]) = <<>>

\* fixup as it would be if the control slots were left holding old ids
fixup_unmapped(F) == F

fixup(F) ==
    IF fixup_panics(F) THEN [F EXCEPT !.panic = "unwrap"]
    ELSE [F EXCEPT !.code = [k \in 1 .. Len(F.code) |->
                                fixup_ins(F.old_new, F.code[k],
                                          controls(F.code[k].op))]]

\* ---------------------------------------------------------------- irsize
RECURSIVE SumLen(_)
SumLen(funcs) ==
    IF funcs = <<>> THEN 0 ELSE Len(Head(funcs).code) + SumLen(Tail(funcs))

irsize(funcs) == SumLen(funcs) + 37 * Len(funcs)

\* ----------------------------------------------------------------- state
VARIABLES
    ir,        \* IR.funcs: the functions, each [code, entry]
    old_new,   \* Fold.old_new: <<>> is None, <<n>> is Some(n)
    next,      \* Fold.next
    cse_map,   \* Fold.cse_map: the ids of the new code the table holds
    code,      \* Fold.code
    flags,     \* the enabled passes
    pc,        \* where the driver stands
    fid,       \* the function the driver has come to
    i,         \* the loop variable of Optimize::run
    size,      \* the local of Optimize::run
    calls,     \* how often Optimize::run was entered
    debug,     \* whether the build has debug assertions and overflow checks
    panic,     \* why the program panicked, "" while it has not
    input,     \* the IR as it was handed to the optimizer
    iters,     \* the calls of optimize made by the current Optimize::run
    before,    \* irsize when the last call of optimize began
    firstEq,   \* the first iteration of this run that left irsize as it was
    prev,      \* <<f>>: the function the last Fold run began with
    convSize,  \* <<n>>: the size at which convergence was first declared
    stage,     \* the statement of optimize the driver has come to
    log,       \* the passes the current call of optimize has invoked
    stat,      \* the turns of the loop and the rewrites of the current Fold run
    lang,      \* the LangState and the calls made on its behalf
    optarg,    \* the bytes handed to parse_optflags
    oflg       \* <<s>>: the set parse_optflags returned

vars == <<ir, old_new, next, cse_map, code, flags, pc, fid, i, size, calls,
          debug, panic, input, iters, before, firstEq, prev, convSize, stage,
          log, stat, lang, optarg, oflg>>

\* the state of the compiler outside the optimizer
apart == <<lang, optarg, oflg>>

\* No LangState has been made yet: nothing asked for, nothing called.
LangIdle ==
    [pc |-> "start", present |-> {}, data |-> <<>>, arg |-> {}, bad |-> {},
     calls |-> <<>>, result |-> <<>>, got |-> <<>>]
StatIdle == [rewrites |-> <<>>, foldcalls |-> 0, pops |-> 0]

\* ---------------------------------------------------------------- inputs
\* Functions as the lowering appends them: value instructions first, each
\* using earlier ones, then the control instructions, which may form cycles.
StructOps == {"ADD", "SUB", "MUL", "DIV"}
StructTy == "I32"

ValueSlot(k) ==
    {Ins_KINT(StructTy, v) : v \in 0 .. 2}
    \cup {Ins("PARAM", StructTy, 0, n, 0) : n \in 0 .. 1}
    \cup {Ins(op, StructTy, a, b, 0) : op \in StructOps, a \in 0 .. (k - 1),
                                       b \in 0 .. (k - 1)}
    \cup {Ins("MOV", StructTy, a, 0, 0) : a \in 0 .. (k - 1)}

ControlSlot(nv, len) ==
    {Ins("RET", "FX", a, 0, 0) : a \in 0 .. (nv - 1)}
    \cup {Ins("GOTO", "FX", c, 0, 0) : c \in nv .. (len - 1)}
    \cup UNION {{Ins("IF", "FX", a, b, c) : a \in 0 .. (nv - 1),
                                            c \in b .. (len - 1)}
                : b \in nv .. (len - 1)}

RECURSIVE ValueCodes(_)
ValueCodes(nv) ==
    IF nv = 0 THEN {<<>>}
    ELSE {Append(vc, ins) : vc \in ValueCodes(nv - 1), ins \in ValueSlot(nv - 1)}

RECURSIVE ControlCodes(_, _, _)
ControlCodes(nv, len, k) ==
    IF k = 0 THEN {<<>>}
    ELSE {Append(cc, ins) : cc \in ControlCodes(nv, len, k - 1),
                            ins \in ControlSlot(nv, len)}

\* One arithmetic instruction on two constants of its type, and a RET of it.
TypeVals(ty) ==
    {v \in {0, 1, 0 - 1, 2, MinOf(Bits(ty)), MaxOf(Bits(ty))} :
        v = Wrap(v, Bits(ty))}

ArithFunc(op, ty, x, y) ==
    [code |-> <<newkint(ty, x), newkint(ty, y), Ins(op, ty, 0, 1, 0),
                Ins("RET", "FX", 2, 0, 0)>>,
     entry |-> 3]

ArithFuncs ==
    UNION {{ArithFunc(op, ty, x, y) : op \in ArithOps, x \in TypeVals(ty),
                                      y \in TypeVals(ty)}
           : ty \in ValueTypes}

\* The scenarios S1 to S5 of the specification.
Param(n) == Ins("PARAM", "I32", 0, n, 0)
Ret(a) == Ins("RET", "FX", a, 0, 0)
S1 == [code |-> <<Ins_KINT("I32", 2), Ins_KINT("I32", 3), Ins("ADD", "I32", 0, 1, 0),
                  Ret(2)>>,
       entry |-> 3]
S2 == [code |-> <<Ins_KINT("I32", 7), Param(0), Ins("ADD", "I32", 0, 1, 0), Ret(2)>>,
       entry |-> 3]
S3 == [code |-> <<Param(0), Ins_KINT("I32", 0), Ins("ADD", "I32", 0, 1, 0),
                  Ins_KINT("I32", 1), Ins("MUL", "I32", 2, 3, 0), Ret(4)>>,
       entry |-> 5]
S4 == [code |-> <<Param(0), Param(1), Ins("ADD", "I32", 0, 1, 0),
                  Ins("ADD", "I32", 0, 1, 0), Ins("SUB", "I32", 2, 3, 0), Ret(4)>>,
       entry |-> 5]
S5 == [code |-> <<Param(0), Ins("MOV", "I32", 0, 0, 0), Ins_KINT("I32", 1),
                  Ins("ADD", "I32", 1, 2, 0), Ret(3)>>,
       entry |-> 4]
Scenarios == {S1, S2, S3, S4, S5}

\* An operation on a parameter and the constant k, either way round.
IdentFunc(op, ty, k, swapped) ==
    [code |-> <<Ins("PARAM", ty, 0, 0, 0), Ins_KINT(ty, k),
                IF swapped THEN Ins(op, ty, 1, 0, 0) ELSE Ins(op, ty, 0, 1, 0),
                Ret(2)>>,
     entry |-> 3]

IdentFuncs ==
    {IdentFunc(op, ty, k, swapped) : op \in {"ADD", "MUL", "DIV", "UDIV"},
                                     ty \in ValueTypes, k \in 0 .. 1,
                                     swapped \in BOOLEAN}

\* S4 with the operands of its second ADD the other way round.
Commuted ==
    [code |-> <<Param(0), Param(1), Ins("ADD", "I32", 0, 1, 0),
                Ins("ADD", "I32", 1, 0, 0), Ins("SUB", "I32", 2, 3, 0), Ret(4)>>,
     entry |-> 5]

Init ==
    /\ \/ \E len \in 1 .. MaxLen :
             \E nv \in 0 .. (len - 1) :
                \E vc \in ValueCodes(nv) :
                   \E cc \in ControlCodes(nv, len, len - nv) :
                      \E e \in nv .. (len - 1) :
                         ir = <<[code |-> vc \o cc, entry |-> e]>>
       \/ \E f \in ArithFuncs \cup Scenarios \cup IdentFuncs \cup {Commuted} :
             ir = <<f>>
    /\ input = ir
    /\ old_new = <<>>
    /\ next = <<>>
    /\ cse_map = {}
    /\ code = <<>>
    /\ flags = {"FOLD"}
    /\ pc = "idle"
    /\ fid = 0
    /\ i = 0
    /\ size = 0
    /\ calls = 0
    /\ debug \in BOOLEAN
    /\ panic = ""
    /\ iters = 0
    /\ before = 0
    /\ firstEq = 0
    /\ prev = <<>>
    /\ convSize = <<>>
    /\ stage = 0
    /\ log = <<>>
    /\ stat = StatIdle
    /\ lang = LangIdle
    /\ optarg = <<>>
    /\ oflg = <<>>

\* --------------------------------------------------------------- actions
\* Optimize::run is entered: size = irsize(ir), and the loop begins.
Run ==
    /\ pc = "idle"
    /\ calls < MaxCalls
    /\ calls' = calls + 1
    /\ size' = irsize(ir)
    /\ i' = 0
    /\ fid' = 0
    /\ pc' = "optimize"
    /\ iters' = 0
    /\ before' = 0
    /\ firstEq' = 0
    /\ UNCHANGED <<ir, old_new, next, cse_map, code, flags, debug, panic, input,
                   prev, convSize>>
    /\ stage' = 0
    /\ log' = <<>>
    /\ UNCHANGED <<stat, apart>>

\* FoldBegin as it would be if the buffers were resized but not cleared
FoldBegin_Uncleared ==
    /\ pc = "optimize"
    /\ fid < Len(ir)
    /\ "FOLD" \in flags
    /\ IF debug /\ next # <<>>
       THEN /\ pc' = "panic"
            /\ panic' = "debug_assert next"
            /\ UNCHANGED <<old_new, next, cse_map, code>>
       ELSE /\ old_new' = [k \in 1 .. Len(At(ir, fid).code) |->
                              IF k <= Len(old_new) THEN old_new[k] ELSE <<>>]
            /\ next' = Append(next, At(ir, fid).entry)
            /\ pc' = "fold"
            /\ UNCHANGED <<panic, cse_map, code>>
    /\ stat' = [rewrites |-> [k \in 1 .. Len(At(ir, fid).code) |-> 0],
                foldcalls |-> 0, pops |-> 0]
    /\ prev' = <<At(ir, fid)>>
    /\ iters' = IF fid = 0 THEN iters + 1 ELSE iters
    /\ before' = IF fid = 0 THEN irsize(ir) ELSE before
    /\ UNCHANGED <<ir, flags, fid, i, size, calls, debug, input, firstEq,
                   convSize>>
    /\ UNCHANGED <<stage, log, apart>>

\* Fold::run up to its while loop: the buffers are reset and the entry queued.
FoldBegin ==
    /\ pc = "optimize"
    /\ fid < Len(ir)
    /\ "FOLD" \in flags
    /\ IF debug /\ next # <<>>
       THEN /\ pc' = "panic"
            /\ panic' = "debug_assert next"
            /\ UNCHANGED <<old_new, next, cse_map, code>>
       ELSE /\ old_new' = [k \in 1 .. Len(At(ir, fid).code) |-> <<>>]
            /\ cse_map' = {}
            /\ code' = <<>>
            /\ next' = Append(next, At(ir, fid).entry)
            /\ pc' = "fold"
            /\ UNCHANGED panic
    /\ stat' = [rewrites |-> [k \in 1 .. Len(At(ir, fid).code) |-> 0],
                foldcalls |-> 0, pops |-> 0]
    /\ prev' = <<At(ir, fid)>>
    /\ iters' = IF fid = 0 THEN iters + 1 ELSE iters
    /\ before' = IF fid = 0 THEN irsize(ir) ELSE before
    /\ UNCHANGED <<ir, flags, fid, i, size, calls, debug, input, firstEq,
                   convSize>>
    /\ UNCHANGED <<stage, log, apart>>

\* One turn of the while loop: an id is taken from the queue and visited.
FoldVisit ==
    /\ pc = "fold"
    /\ next # <<>>
    /\ LET F == [FoldState(old_new, Tail(next), cse_map, code, "")
                 EXCEPT !.rewrites = stat.rewrites, !.foldcalls = stat.foldcalls]
           r == visit(F, At(ir, fid), Head(next), debug)
       IN  /\ stat' = [rewrites |-> r.F.rewrites, foldcalls |-> r.F.foldcalls,
                       pops |-> stat.pops + 1]
           /\ old_new' = r.F.old_new
           /\ next' = r.F.next
           /\ cse_map' = r.F.cse_map
           /\ code' = r.F.code
           /\ panic' = r.F.panic
           /\ pc' = IF r.F.panic # "" THEN "panic" ELSE "fold"
    /\ UNCHANGED <<ir, flags, fid, i, size, calls, debug, input, iters, before,
                   firstEq, prev, convSize>>
    /\ UNCHANGED <<stage, log, apart>>

\* The queue is empty: the controls are fixed up, the entry is mapped and the
\* new code is swapped with the function's.
FoldEnd ==
    /\ pc = "fold"
    /\ next = <<>>
    /\ LET F == fixup(FoldState(old_new, next, cse_map, code, ""))
           func == At(ir, fid)
       IN  IF F.panic # "" \/ At(old_new, func.entry) = <<>>
           THEN /\ pc' = "panic"
                /\ panic' = "unwrap"
                /\ UNCHANGED <<ir, code, fid>>
           ELSE /\ ir' = [ir EXCEPT ![fid + 1] =
                             [code |-> F.code,
                              entry |-> At(old_new, func.entry)[1]]]
                /\ code' = func.code
                /\ fid' = fid + 1
                /\ pc' = "optimize"
                /\ UNCHANGED panic
    /\ UNCHANGED <<old_new, next, cse_map, flags, i, size, calls, debug, input,
                   iters, before, firstEq, prev, convSize>>
    /\ UNCHANGED <<stage, log, stat, apart>>

\* Measure as it would be if the loop forgot to carry newsize into size
Measure_StaleSize ==
    /\ pc = "optimize"
    /\ fid = Len(ir)
    /\ LET newsize == irsize(ir)
       IN  /\ firstEq' = IF firstEq = 0 /\ newsize = before THEN iters ELSE firstEq
           /\ IF size = newsize
              THEN /\ pc' = "idle"
                   /\ convSize' = IF convSize = <<>> THEN <<size>> ELSE convSize
                   /\ UNCHANGED <<size, i, fid>>
              ELSE /\ i' = i + 1
                   /\ UNCHANGED <<size, convSize>>
                   /\ IF i + 1 < MAX_ITER
                      THEN pc' = "optimize" /\ fid' = 0
                      ELSE pc' = "idle" /\ UNCHANGED fid
    /\ UNCHANGED <<ir, old_new, next, cse_map, code, flags, calls, debug, panic,
                   input, iters, before, prev>>
    /\ stage' = 0
    /\ log' = <<>>
    /\ UNCHANGED <<stat, apart>>

\* optimize has returned: the size is measured and the loop goes on or ends.
Measure ==
    /\ pc = "optimize"
    /\ fid = Len(ir)
    /\ LET newsize == irsize(ir)
       IN  /\ firstEq' = IF firstEq = 0 /\ newsize = before THEN iters ELSE firstEq
           /\ IF size = newsize
              THEN /\ pc' = "idle"
                   /\ convSize' = IF convSize = <<>> THEN <<size>> ELSE convSize
                   /\ UNCHANGED <<size, i, fid>>
              ELSE /\ size' = newsize
                   /\ i' = i + 1
                   /\ UNCHANGED convSize
                   /\ IF i + 1 < MAX_ITER
                      THEN pc' = "optimize" /\ fid' = 0
                      ELSE pc' = "idle" /\ UNCHANGED fid
    /\ UNCHANGED <<ir, old_new, next, cse_map, code, flags, calls, debug, panic,
                   input, iters, before, prev>>
    /\ stage' = 0
    /\ log' = <<>>
    /\ UNCHANGED <<stat, apart>>

Next == Run \/ FoldBegin \/ FoldVisit \/ FoldEnd \/ Measure

Spec == Init /\ [][Next]_vars

\* ------------------------------------------------------- two functions
\* The same program on an IR of two functions, so that Fold runs on one
\* function with the scratch buffers the run on the other has left.
Looped ==
    [code |-> <<Param(0), Ins_KINT("I32", 0), Ins("ADD", "I32", 1, 0, 0),
                Ins("IF", "FX", 2, 4, 5), Ins("GOTO", "FX", 3, 0, 0), Ret(0)>>,
     entry |-> 3]

PairFuncs == Scenarios \cup {Commuted, Looped}

InitTwo ==
    /\ \E f \in PairFuncs : \E g \in PairFuncs : ir = <<f, g>>
    /\ input = ir
    /\ old_new = <<>>
    /\ next = <<>>
    /\ cse_map = {}
    /\ code = <<>>
    /\ flags = {"FOLD"}
    /\ pc = "idle"
    /\ fid = 0
    /\ i = 0
    /\ size = 0
    /\ calls = 0
    /\ debug \in BOOLEAN
    /\ panic = ""
    /\ iters = 0
    /\ before = 0
    /\ firstEq = 0
    /\ prev = <<>>
    /\ convSize = <<>>
    /\ stage = 0
    /\ log = <<>>
    /\ stat = StatIdle
    /\ lang = LangIdle
    /\ optarg = <<>>
    /\ oflg = <<>>

SpecTwo == InitTwo /\ [][Next]_vars

\* ----------------------------------------------------- the driver alone
\* The passes other than Fold are black boxes to the driver: one call of
\* optimize may leave every function with any code of at most MaxAbsLen
\* instructions.  Optimize::run itself (Run, Measure) is the same code.
Nop == Ins("NOP", "FX", 0, 0, 0)
AbsFunc(n) == [code |-> [k \in 1 .. n |-> Nop], entry |-> 0]

InitDriver ==
    /\ \E n1 \in 0 .. MaxAbsLen : \E n2 \in 0 .. MaxAbsLen :
          ir = <<AbsFunc(n1), AbsFunc(n2)>>
    /\ input = ir
    /\ old_new = <<>>
    /\ next = <<>>
    /\ cse_map = {}
    /\ code = <<>>
    /\ flags = {"GOTO", "INLINE", "LOOP", "PHI", "SWITCH"}
    /\ pc = "idle"
    /\ fid = 0
    /\ i = 0
    /\ size = 0
    /\ calls = 0
    /\ debug = FALSE
    /\ panic = ""
    /\ iters = 0
    /\ before = 0
    /\ firstEq = 0
    /\ prev = <<>>
    /\ convSize = <<>>
    /\ stage = 0
    /\ log = <<>>
    /\ stat = StatIdle
    /\ lang = LangIdle
    /\ optarg = <<>>
    /\ oflg = <<>>

\* optimize(ocx) with the enabled passes taken as black boxes
Passes ==
    /\ pc = "optimize"
    /\ fid = 0
    /\ "FOLD" \notin flags
    /\ \E n1 \in 0 .. MaxAbsLen : \E n2 \in 0 .. MaxAbsLen :
          ir' = <<AbsFunc(n1), AbsFunc(n2)>>
    /\ fid' = Len(ir)
    /\ iters' = iters + 1
    /\ before' = irsize(ir)
    /\ UNCHANGED <<old_new, next, cse_map, code, flags, pc, i, size, calls, debug,
                   panic, input, firstEq, prev, convSize>>
    /\ UNCHANGED <<stage, log, stat, apart>>

NextDriver == Run \/ Passes \/ Measure

SpecDriver == InitDriver /\ [][NextDriver]_vars

\* ------------------------------------------- the driver, pass by pass
\* optimize(ocx) statement by statement.  Every pass, Fold included, is a
\* black box that may leave the code it works on with any length up to
\* MaxAbsLen; the flags are any subset of the six.
OptFlags == {"FOLD", "GOTO", "INLINE", "LOOP", "PHI", "SWITCH"}

\* the function passes in the order of the statements of the loop body
FuncPasses == <<"FOLD", "SWITCH", "LOOP", "PHI", "GOTO">>

InitOrder ==
    /\ ir = <<AbsFunc(MaxAbsLen), AbsFunc(MaxAbsLen)>>
    /\ input = ir
    /\ old_new = <<>>
    /\ next = <<>>
    /\ cse_map = {}
    /\ code = <<>>
    /\ flags \in SUBSET OptFlags
    /\ pc = "idle"
    /\ fid = 0
    /\ i = 0
    /\ size = 0
    /\ calls = 0
    /\ debug = FALSE
    /\ panic = ""
    /\ iters = 0
    /\ before = 0
    /\ firstEq = 0
    /\ prev = <<>>
    /\ convSize = <<>>
    /\ stage = 0
    /\ log = <<>>
    /\ stat = StatIdle
    /\ lang = LangIdle
    /\ optarg = <<>>
    /\ oflg = <<>>

\* `if ocx.flags.contains(INLINE) { Inline::run(ocx) }`
PassInline ==
    /\ pc = "optimize"
    /\ stage = 0
    /\ IF "INLINE" \in flags
       THEN /\ log' = Append(log, <<"INLINE", 0>>)
            /\ \E n1 \in 0 .. MaxAbsLen : \E n2 \in 0 .. MaxAbsLen :
                  ir' = <<AbsFunc(n1), AbsFunc(n2)>>
       ELSE UNCHANGED <<log, ir>>
    /\ stage' = 1
    /\ iters' = iters + 1
    /\ before' = irsize(ir)
    /\ UNCHANGED <<old_new, next, cse_map, code, flags, pc, fid, i, size, calls,
                   debug, panic, input, firstEq, prev, convSize, stat, apart>>

\* PassFunc as it would be if the loop body did not look at the flags
PassFunc_Unflagged ==
    /\ pc = "optimize"
    /\ stage \in 1 .. Len(FuncPasses)
    /\ fid < Len(ir)
    /\ log' = Append(log, <<FuncPasses[stage], fid>>)
    /\ \E n \in 0 .. MaxAbsLen : ir' = [ir EXCEPT ![fid + 1] = AbsFunc(n)]
    /\ IF stage < Len(FuncPasses)
       THEN stage' = stage + 1 /\ UNCHANGED fid
       ELSE stage' = 1 /\ fid' = fid + 1
    /\ UNCHANGED <<old_new, next, cse_map, code, flags, pc, i, size, calls, debug,
                   panic, input, iters, before, firstEq, prev, convSize, stat,
                   apart>>

\* one statement `if ocx.flags.contains(P) { P::run(ocx, fid) }` of the loop
\* body; after the last one the loop moves to the next function
PassFunc ==
    /\ pc = "optimize"
    /\ stage \in 1 .. Len(FuncPasses)
    /\ fid < Len(ir)
    /\ IF FuncPasses[stage] \in flags
       THEN /\ log' = Append(log, <<FuncPasses[stage], fid>>)
            /\ \E n \in 0 .. MaxAbsLen : ir' = [ir EXCEPT ![fid + 1] = AbsFunc(n)]
       ELSE UNCHANGED <<log, ir>>
    /\ IF stage < Len(FuncPasses)
       THEN stage' = stage + 1 /\ UNCHANGED fid
       ELSE stage' = 1 /\ fid' = fid + 1
    /\ UNCHANGED <<old_new, next, cse_map, code, flags, pc, i, size, calls, debug,
                   panic, input, iters, before, firstEq, prev, convSize, stat,
                   apart>>

NextOrder == Run \/ PassInline \/ PassFunc \/ Measure

SpecOrder == InitOrder /\ [][NextOrder]_vars

\* ------------------------------------------------------------ LangState
\* The languages are the numbers `lang as u8`.  A slot of the table holds
\* <<>> while uninitialized and <<l>> once the payload of language l has been
\* written to it.  lang.calls lists the calls of begin_emit and finish_emit,
\* lang.result is what new or finish returned, lang.got what get_mut did.
Langs == 0 .. (NumLangs - 1)

\* EnumSet::as_u64_truncated: bit l is set iff l is in the set
RECURSIVE as_u64_truncated(_)
as_u64_truncated(S) ==
    IF S = {} THEN 0
    ELSE LET l == CHOOSE x \in S : TRUE
         IN  Pow2(l) + as_u64_truncated(S \ {l})

\* u64::count_ones
RECURSIVE count_ones(_)
count_ones(n) == IF n = 0 THEN 0 ELSE (n % 2) + count_ones(n \div 2)

\* EnumSet::len
len(S) == count_ones(as_u64_truncated(S))

\* the iteration of an EnumSet: the set bits, lowest first
RECURSIVE into_iter(_, _)
into_iter(bits, l) ==
    IF bits = 0 THEN <<>>
    ELSE IF bits % 2 = 1 THEN <<l>> \o into_iter(bits \div 2, l + 1)
    ELSE into_iter(bits \div 2, l + 1)

\* get_mut as it would be if the slot were the number of the language
slot_unmasked(present, l) == l

\* the slot of get_mut: count_ones(present & ((1 << lang) - 1))
slot(present, l) == count_ones(as_u64_truncated(present) % Pow2(l))

Err(l) == <<"Err", l>>

\* Result::and as it would be if the later error replaced the earlier
and_later(result, res) == IF res = <<"Ok">> THEN result ELSE res

\* Result::and: the argument if self is Ok, else self
and(result, res) == IF result = <<"Ok">> THEN res ELSE result

\* one turn of the loop of new as it would be if a failure of begin_emit
\* were passed over
new_turn_unchecked(st, k, l) ==
    IF l \in st.bad
    THEN [st EXCEPT !.calls = Append(@, <<"begin_emit", l, k>>)]
    ELSE [st EXCEPT !.calls = Append(@, <<"begin_emit", l, k>>),
                    !.data[k + 1] = <<l>>]

\* one turn of the loop of new: begin_emit for language l, whose payload goes
\* to slot k; `?` returns the error at once
new_turn(st, k, l) ==
    IF l \in st.bad
    THEN [st EXCEPT !.calls = Append(@, <<"begin_emit", l, k>>),
                    !.result = Err(l)]
    ELSE [st EXCEPT !.calls = Append(@, <<"begin_emit", l, k>>),
                    !.data[k + 1] = <<l>>]

RECURSIVE new_loop(_, _, _)
new_loop(st, k, langs) ==
    IF st.result # <<>> \/ k >= Len(st.data) \/ langs = <<>> THEN st
    ELSE new_loop(new_turn(st, k, Head(langs)), k + 1, Tail(langs))

\* one turn of the loop of finish: the payload of slot k is read as that of
\* language l and handed to finish_emit
finish_turn(st, k, l) ==
    [st EXCEPT !.calls = Append(@, <<"finish_emit", l, k, st.data[k + 1]>>),
               !.data[k + 1] = <<>>,
               !.result = and(@, IF l \in st.bad THEN Err(l) ELSE <<"Ok">>)]

RECURSIVE finish_loop(_, _, _)
finish_loop(st, k, langs) ==
    IF k >= len(st.present) \/ langs = <<>> THEN st
    ELSE finish_loop(finish_turn(st, k, Head(langs)), k + 1, Tail(langs))

InitLang ==
    /\ ir = <<>>
    /\ input = ir
    /\ old_new = <<>>
    /\ next = <<>>
    /\ cse_map = {}
    /\ code = <<>>
    /\ flags = {}
    /\ pc = "idle"
    /\ fid = 0
    /\ i = 0
    /\ size = 0
    /\ calls = 0
    /\ debug = FALSE
    /\ panic = ""
    /\ iters = 0
    /\ before = 0
    /\ firstEq = 0
    /\ prev = <<>>
    /\ convSize = <<>>
    /\ stage = 0
    /\ log = <<>>
    /\ stat = StatIdle
    /\ lang = LangIdle
    /\ optarg = <<>>
    /\ oflg = <<>>

\* the optimizer's state, which the language table does not touch
optimizer == <<ir, old_new, next, cse_map, code, flags, pc, fid, i, size, calls,
               debug, panic, input, iters, before, firstEq, prev, convSize,
               stage, log, stat>>

\* LangState::default()
LangDefault ==
    /\ lang.pc = "start"
    /\ lang' = [lang EXCEPT !.pc = "live", !.present = {}, !.data = <<>>]
    /\ UNCHANGED <<optimizer, optarg, oflg>>

\* LangState::new(ccx, langs), begin_emit failing for the languages of bad
LangNew ==
    /\ lang.pc = "start"
    /\ \E langs \in SUBSET Langs : \E bad \in SUBSET langs :
          LET num == len(langs)
              mem == [k \in 1 .. num |-> <<>>]
              st == new_loop([lang EXCEPT !.arg = langs, !.bad = bad, !.data = mem],
                             0, into_iter(as_u64_truncated(langs), 0))
          IN  lang' = IF num = 0
                      THEN [lang EXCEPT !.pc = "live", !.present = {}, !.data = <<>>,
                                        !.result = <<"Ok">>]
                      ELSE IF st.result # <<>>
                      THEN [st EXCEPT !.pc = "failed", !.data = <<>>]
                      ELSE [st EXCEPT !.pc = "live", !.present = langs,
                                      !.result = <<"Ok">>]
    /\ UNCHANGED <<optimizer, optarg, oflg>>

\* get_mut as it would be without its assertion
LangGetMut_Unchecked ==
    /\ lang.pc = "live"
    /\ \E l \in Langs :
          LET idx == slot(lang.present, l)
          IN  lang' = [lang EXCEPT !.got = <<l, idx>>]
    /\ UNCHANGED <<optimizer, optarg, oflg>>

\* get_mut(lang): the payload of language l is asked for
LangGetMut ==
    /\ lang.pc = "live"
    /\ \E l \in Langs :
          IF l \notin lang.present
          THEN lang' = [lang EXCEPT !.pc = "panic", !.got = <<l>>]
          ELSE LET idx == slot(lang.present, l)
               IN  lang' = [lang EXCEPT !.got = <<l, idx>>]
    /\ UNCHANGED <<optimizer, optarg, oflg>>

\* finish(self, ccx), finish_emit failing for the languages of bad
LangFinish ==
    /\ lang.pc = "live"
    /\ \E bad \in SUBSET lang.present :
          LET st == finish_loop([lang EXCEPT !.bad = bad, !.result = <<"Ok">>], 0,
                                into_iter(as_u64_truncated(lang.present), 0))
          IN  lang' = [st EXCEPT !.pc = "finished", !.data = <<>>]
    /\ UNCHANGED <<optimizer, optarg, oflg>>

NextLang == LangDefault \/ LangNew \/ LangGetMut \/ LangFinish

SpecLang == InitLang /\ [][NextLang]_vars

\* -------------------------------------------------------- parse_optflags
\* The bytes are one-character strings; "x" and "F" stand for the bytes that
\* select nothing.
OptBytes == {"f", "g", "i", "l", "p", "s", "a", "-", "x", "F"}

RECURSIVE OptArgs(_)
OptArgs(n) ==
    IF n = 0 THEN {<<>>}
    ELSE OptArgs(n - 1)
         \cup {Append(arg, b) : arg \in {x \in OptArgs(n - 1) : Len(x) = n - 1},
                                b \in OptBytes}

\* EnumSet::complement
complement(set) == OptFlags \ set

\* the loop over the bytes: insert_all of what the byte selects, or continue
RECURSIVE insert_loop(_, _)
insert_loop(set, bytes) ==
    IF bytes = <<>> THEN set
    ELSE LET f == Head(bytes)
         IN  CASE f = "f" -> insert_loop(set \cup {"FOLD"}, Tail(bytes))
               [] f = "g" -> insert_loop(set \cup {"GOTO"}, Tail(bytes))
               [] f = "i" -> insert_loop(set \cup {"INLINE"}, Tail(bytes))
               [] f = "l" -> insert_loop(set \cup {"LOOP"}, Tail(bytes))
               [] f = "p" -> insert_loop(set \cup {"PHI"}, Tail(bytes))
               [] f = "s" -> insert_loop(set \cup {"SWITCH"}, Tail(bytes))
               [] f = "a" -> insert_loop(set \cup OptFlags, Tail(bytes))
               [] OTHER -> insert_loop(set, Tail(bytes))

\* parse_optflags as it would be if a '-' anywhere complemented the set
parse_optflags_anywhere(bytes) ==
    LET set == insert_loop({}, bytes)
    IN  IF \E k \in 1 .. Len(bytes) : bytes[k] = "-" THEN complement(set) ELSE set

parse_optflags(bytes) ==
    LET set == insert_loop({}, bytes)
    IN  IF Len(bytes) > 0 /\ bytes[1] = "-" THEN complement(set) ELSE set

InitOpt ==
    /\ ir = <<>>
    /\ input = ir
    /\ old_new = <<>>
    /\ next = <<>>
    /\ cse_map = {}
    /\ code = <<>>
    /\ flags = {}
    /\ pc = "idle"
    /\ fid = 0
    /\ i = 0
    /\ size = 0
    /\ calls = 0
    /\ debug = FALSE
    /\ panic = ""
    /\ iters = 0
    /\ before = 0
    /\ firstEq = 0
    /\ prev = <<>>
    /\ convSize = <<>>
    /\ stage = 0
    /\ log = <<>>
    /\ stat = StatIdle
    /\ lang = LangIdle
    /\ optarg \in OptArgs(MaxArgLen)
    /\ oflg = <<>>

\* parse_optflags(optarg) is called and returns
ParseOptflags ==
    /\ oflg = <<>>
    /\ oflg' = <<parse_optflags(optarg)>>
    /\ UNCHANGED <<optimizer, lang, optarg>>

NextOpt == ParseOptflags

SpecOpt == InitOpt /\ [][NextOpt]_vars

\* ------------------------------------------------------ claim vocabulary
\* A Fold run on function fid - 1 has just returned: the function holds the
\* new code, the scratch buffer `code` holds the old code (they were
\* swapped) and old_new still maps the old ids.
FoldDone == pc = "optimize" /\ fid > 0
NewFunc == At(ir, fid - 1)
OldFunc == prev[1]
FirstRun == calls = 1 /\ i = 0

\* the ids an instruction refers to, operands and control successors alike
Refs(ins) ==
    {ins[inputs(ins.op)[k]] : k \in 1 .. Len(inputs(ins.op))}
    \cup {ins[controls(ins.op)[k]] : k \in 1 .. Len(controls(ins.op))}

RECURSIVE Closure(_, _)
Closure(vec, seen) ==
    LET more == UNION {Refs(At(vec, id)) : id \in seen}
    IN  IF more \subseteq seen THEN seen ELSE Closure(vec, seen \cup more)

\* the ids reachable from the entry of f along operand and control edges
Reachable(f) == Closure(f.code, {f.entry})

\* the input is one arithmetic instruction on two constants, and a RET of it
IsArith(f) ==
    /\ Len(f.code) = 4
    /\ f.entry = 3
    /\ is_const(f.code[1].op)
    /\ is_const(f.code[2].op)
    /\ f.code[3].op \in ArithOps
    /\ f.code[3].a = 0
    /\ f.code[3].b = 1
    /\ f.code[4] = Ret(2)
ArithOp == input[1].code[3].op
ArithTy == input[1].code[3].ty
ArithLeft == kintvalue(input[1].code[1])
ArithRight == kintvalue(input[1].code[2])

\* the instruction the new function returns
Returned == At(NewFunc.code, At(NewFunc.code, NewFunc.entry).a)

\* the ids of vec are all below n
ValidIds(vec, n) == \A k \in 1 .. Len(vec) : \A r \in Refs(vec[k]) : r \in 0 .. (n - 1)

\* ins with its operands and control successors mapped through pi
RECURSIVE Renamed(_, _, _)
Renamed(ins, pi, slots) ==
    IF slots = <<>> THEN ins
    ELSE Renamed([ins EXCEPT ![Head(slots)] = pi[ins[Head(slots)]]], pi, Tail(slots))

Bijections(S) == {pi \in [S -> S] : \A x \in S : \E y \in S : pi[y] = x}

\* f and g are the same function up to a renumbering of the instruction ids
SameUpToIds(f, g) ==
    /\ Len(f.code) = Len(g.code)
    /\ \E pi \in Bijections(Ids(f.code)) :
          /\ pi[f.entry] = g.entry
          /\ \A id \in Ids(f.code) :
                At(g.code, pi[id]) =
                    Renamed(At(f.code, id), pi,
                            inputs(At(f.code, id).op) \o controls(At(f.code, id).op))

\* ------------------------------------------------------------------ C1
\* C1: after a Fold run every instruction of the new code is reachable from
\* the new entry along operand and control edges of the new code; for S1 the
\* new code is exactly [KINT 5, RET v0].
C1_NoUnreachable ==
    FoldDone =>
        /\ Reachable(NewFunc) = Ids(NewFunc.code)
        /\ (FirstRun /\ input = <<S1>>) =>
              NewFunc.code = <<Ins_KINT("I32", 5), Ret(0)>>

\* ------------------------------------------------------------------ C2
\* C2: Fold is idempotent: a run on the output of an earlier run yields the
\* same function up to a renumbering of the instruction ids.
C2_Idempotent ==
    (FoldDone /\ ~FirstRun) => SameUpToIds(OldFunc, NewFunc)

\* ------------------------------------------------------------------ C3
\* C3: once Optimize::run has declared convergence, every further outer
\* iteration leaves the IR size metric as it was.
C3_PastConvergence ==
    (convSize # <<>> /\ pc = "optimize" /\ fid = Len(ir)) =>
        irsize(ir) = convSize[1]

\* ------------------------------------------------------------------ C4
\* C4: Optimize::run makes exactly k calls of optimize, k being the first
\* iteration that leaves irsize as the iteration before left it, or MAX_ITER
\* when there is none; it calls no pass after that, and it returns without
\* an error.
C4_IterationCount ==
    /\ iters <= MAX_ITER
    /\ panic = ""
    /\ pc = "optimize" => firstEq = 0
    /\ (pc = "idle" /\ calls > 0) =>
          iters = IF firstEq # 0 THEN firstEq ELSE MAX_ITER

\* the cap is reached: MAX_ITER iterations, none of which left the size
C4_Witness_Cap == pc = "idle" /\ calls > 0 /\ firstEq = 0 /\ iters = MAX_ITER

\* ------------------------------------------------------------------ C5
\* the reference arithmetic on x and y at the width w, as a bit pattern
Reference(op, w, x, y) ==
    CASE op = "ADD" -> ToUnsigned(x + y, w)
      [] op = "SUB" -> ToUnsigned(x - y, w)
      [] op = "MUL" -> ToUnsigned(x * y, w)
      [] op = "DIV" -> ToUnsigned(TruncDiv(x, y), w)
      [] op = "UDIV" -> ToUnsigned(x, w) \div ToUnsigned(y, w)
      [] op = "POW" -> ToUnsigned(IPow(x, y), w)

\* the reference is defined: no division by zero, no negative exponent
HasReference ==
    /\ IsArith(input[1])
    /\ ArithOp \in {"DIV", "UDIV"} => ArithRight # 0
    /\ ArithOp = "POW" => ArithRight >= 0 /\ ArithRight <= 2

\* C5: an arithmetic instruction on two constants of its integer type is
\* replaced by a constant whose value is the reference arithmetic at that
\* type: signed for ADD, SUB, MUL, DIV and POW, unsigned for UDIV.
C5_FoldedValue ==
    HasReference =>
        /\ panic = ""
        /\ (FoldDone /\ FirstRun) =>
              /\ is_const(Returned.op)
              /\ Returned.ty = ArithTy
              /\ ToUnsigned(kintvalue(Returned), Bits(ArithTy)) =
                    Reference(ArithOp, Bits(ArithTy), ArithLeft, ArithRight)

\* ------------------------------------------------------------------ C6
\* C6: a DIV or UDIV of two constants with the divisor 0 does not make the
\* pass fail: the run completes and leaves the instruction unfolded.
C6_DivByZeroUnfolded ==
    (IsArith(input[1]) /\ ArithOp \in {"DIV", "UDIV"} /\ ArithRight = 0) =>
        /\ panic = ""
        /\ (FoldDone /\ FirstRun) =>
              /\ Returned.op = ArithOp
              /\ is_const(At(NewFunc.code, Returned.a).op)
              /\ kintvalue(At(NewFunc.code, Returned.b)) = 0

\* ------------------------------------------------------------------ C7
\* the exact result of the instruction, before any reduction
Exact ==
    CASE ArithOp = "ADD" -> ArithLeft + ArithRight
      [] ArithOp = "SUB" -> ArithLeft - ArithRight
      [] ArithOp = "MUL" -> ArithLeft * ArithRight
      [] ArithOp = "DIV" -> TruncDiv(ArithLeft, ArithRight)

Overflows ==
    /\ IsArith(input[1])
    /\ ArithOp \in {"ADD", "SUB", "MUL"}
       \/ (ArithOp = "DIV" /\ ArithLeft = MinOf(Bits(ArithTy))
           /\ ArithRight = 0 - 1)
    /\ Exact # Wrap(Exact, Bits(ArithTy))

\* C7: when the exact result of folding leaves the range of the instruction's
\* type, the emitted constant is the result reduced modulo 2^w in two's
\* complement, and the pass does not abort.
C7_OverflowWraps ==
    Overflows =>
        /\ panic = ""
        /\ (FoldDone /\ FirstRun) =>
              /\ is_const(Returned.op)
              /\ kintvalue(Returned) = Wrap(Exact, Bits(ArithTy))

\* ------------------------------------------------------------------ C8
\* C8: after a Fold run every operand id and control successor of the new
\* code, and the new entry, is an index of the new code, and the fix-up never
\* unwraps an unset old_new entry.
C8_ValidIds ==
    /\ panic # "unwrap"
    /\ FoldDone =>
          /\ ValidIds(NewFunc.code, Len(NewFunc.code))
          /\ NewFunc.entry \in Ids(NewFunc.code)

\* a run whose new code has a control edge forward (the target was queued
\* before it was visited) and a control edge backward (a cycle)
C8_Witness_Cycle ==
    /\ FoldDone
    /\ \E k \in Ids(NewFunc.code) :
          \E j \in 1 .. Len(controls(At(NewFunc.code, k).op)) :
             At(NewFunc.code, k)[controls(At(NewFunc.code, k).op)[j]] > k
    /\ \E k \in Ids(NewFunc.code) :
          \E j \in 1 .. Len(controls(At(NewFunc.code, k).op)) :
             At(NewFunc.code, k)[controls(At(NewFunc.code, k).op)[j]] < k

\* ------------------------------------------------------------------ C9
\* the old instruction id, its operands mapped through old_new
Rewritten(id) ==
    Renamed(At(OldFunc.code, id), [k \in Ids(OldFunc.code) |->
                                      IF At(old_new, k) = <<>> THEN 0
                                      ELSE At(old_new, k)[1]],
            inputs(At(OldFunc.code, id).op))

Visited == {id \in Ids(OldFunc.code) : At(old_new, id) # <<>>}

\* C9: after a Fold run no two ids of the new code hold equal is_cse
\* instructions, and old instructions that are equal once their operands are
\* rewritten have the same new id.
C9_NoDuplicates ==
    FoldDone =>
        /\ \A p \in Ids(NewFunc.code) : \A q \in Ids(NewFunc.code) :
              (p # q /\ is_cse(At(NewFunc.code, p).op)) =>
                  At(NewFunc.code, p) # At(NewFunc.code, q)
        /\ \A p \in Visited : \A q \in Visited :
              (is_cse(At(OldFunc.code, p).op) /\ Rewritten(p) = Rewritten(q)) =>
                  At(old_new, p) = At(old_new, q)

\* two ADDs of the old code were unified
C9_Witness_Unified ==
    /\ FoldDone
    /\ \E p \in Visited : \E q \in Visited :
          /\ p # q
          /\ At(OldFunc.code, p).op = "ADD"
          /\ Rewritten(p) = Rewritten(q)
          /\ At(old_new, p) = At(old_new, q)
          /\ At(NewFunc.code, At(old_new, p)[1]).op = "ADD"

\* ------------------------------------------------------------------ C10
\* the instruction a chain of MOVs copies
RECURSIVE Source(_, _)
Source(vec, id) ==
    IF At(vec, id).op = "MOV" THEN Source(vec, At(vec, id).a) ELSE id

\* C10: after a Fold run the new code holds no MOV, every visited MOV has the
\* new id of the instruction its chain copies, and the assertion on a MOV's
\* operand does not fire.
C10_NoMov ==
    /\ panic # "debug_assert mov"
    /\ FoldDone =>
          /\ \A k \in Ids(NewFunc.code) : At(NewFunc.code, k).op # "MOV"
          /\ \A id \in Visited :
                At(OldFunc.code, id).op = "MOV" =>
                    At(old_new, id) = At(old_new, Source(OldFunc.code, id))

\* a run that visited a MOV of a MOV, in a build with assertions
C10_Witness_MovOfMov ==
    /\ FoldDone
    /\ debug
    /\ \E id \in Visited :
          /\ At(OldFunc.code, id).op = "MOV"
          /\ At(OldFunc.code, At(OldFunc.code, id).a).op = "MOV"

\* ------------------------------------------------------------------ C11
\* the new id of the old id `id`
NewId(id) == At(old_new, id)[1]

\* the new instruction n is not a constant
NonConst(n) == ~is_const(At(NewFunc.code, n).op)

\* the new instruction n is the literal KINT k
IsKint(n, k) == At(NewFunc.code, n).op = "KINT" /\ bc(At(NewFunc.code, n)) = k

\* the instruction ins, on new ids, is x+0, 0+x, x*1, 1*x, x/1 with x not a
\* constant
IsIdentity(ins) ==
    \/ /\ ins.op = "ADD"
       /\ \/ NonConst(ins.a) /\ IsKint(ins.b, 0)
          \/ IsKint(ins.a, 0) /\ NonConst(ins.b)
    \/ /\ ins.op = "MUL"
       /\ \/ NonConst(ins.a) /\ IsKint(ins.b, 1)
          \/ IsKint(ins.a, 1) /\ NonConst(ins.b)
    \/ /\ ins.op \in {"DIV", "UDIV"}
       /\ NonConst(ins.a) /\ IsKint(ins.b, 1)

\* the instruction ins, on new ids, is x*0 or 0*x with x not a constant
IsAnnihilated(ins) ==
    /\ ins.op = "MUL"
    /\ \/ NonConst(ins.a) /\ IsKint(ins.b, 0)
       \/ IsKint(ins.a, 0) /\ NonConst(ins.b)

\* the operand of an identity that is not the literal
Kept(ins) == IF NonConst(ins.a) THEN ins.a ELSE ins.b

\* C11: after a Fold run every visited x+0, 0+x, x*1, 1*x, x/1 (DIV and
\* UDIV) with x not a constant has the new id of x, every visited x*0 and 0*x
\* has the new id of a KINT 0 of the instruction's type, and the new code
\* holds none of these operations.
C11_Identities ==
    FoldDone =>
        /\ \A id \in Visited :
              /\ IsIdentity(Rewritten(id)) => NewId(id) = Kept(Rewritten(id))
              /\ IsAnnihilated(Rewritten(id)) =>
                    At(NewFunc.code, NewId(id)) =
                        Ins_KINT(At(OldFunc.code, id).ty, 0)
        /\ \A n \in Ids(NewFunc.code) :
              /\ ~IsIdentity(At(NewFunc.code, n))
              /\ ~IsAnnihilated(At(NewFunc.code, n))

\* the identities met on a run: which operations, which types, and whether
\* the literal came first
IdentitiesMet ==
    {<<At(OldFunc.code, id).op, At(OldFunc.code, id).ty,
       NonConst(Rewritten(id).a)>> :
        id \in {v \in Visited : IsIdentity(Rewritten(v))
                                 \/ IsAnnihilated(Rewritten(v))}}

\* a run that met x/1 as an unsigned division at the widest type
C11_Witness_Udiv ==
    /\ FoldDone
    /\ <<"UDIV", "I64", TRUE>> \in IdentitiesMet
    /\ \E id \in Visited : IsIdentity(Rewritten(id)) /\ NewId(id) = Kept(Rewritten(id))

\* ------------------------------------------------------------------ C12
\* where a pass stands in the order of one call of optimize: Inline first,
\* then function by function, FOLD, SWITCH, LOOP, PHI, GOTO within each
PassRank(pass) ==
    CASE pass = "FOLD" -> 1
      [] pass = "SWITCH" -> 2
      [] pass = "LOOP" -> 3
      [] pass = "PHI" -> 4
      [] pass = "GOTO" -> 5

Rank(call) == IF call[1] = "INLINE" THEN 0 ELSE 6 * call[2] + PassRank(call[1])

\* the call of optimize has returned
OptimizeDone == pc = "optimize" /\ fid = Len(ir)

\* C12: within one call of optimize the passes are invoked in the order
\* Inline, then for each function id in ascending order FOLD, SWITCH, LOOP,
\* PHI, GOTO; only passes whose flag is set are invoked; and when the call
\* returns, Inline has run once if INLINE is set and every enabled function
\* pass has run exactly once on every function.
C12_PassOrder ==
    /\ \A k \in 1 .. Len(log) : log[k][1] \in flags
    /\ \A k \in 1 .. Len(log) : \A j \in 1 .. Len(log) :
          k < j => Rank(log[k]) < Rank(log[j])
    /\ OptimizeDone =>
          /\ "INLINE" \in flags => \E k \in 1 .. Len(log) : log[k][1] = "INLINE"
          /\ \A pass \in flags \ {"INLINE"} : \A f \in Ids(ir) :
                \E k \in 1 .. Len(log) : log[k] = <<pass, f>>

\* a call of optimize with some but not all function passes enabled, and
\* Inline, has returned in a later iteration of the loop
C12_Witness_Mixed ==
    /\ OptimizeDone
    /\ i > 0
    /\ flags = {"INLINE", "SWITCH", "GOTO"}
    /\ log = <<<<"INLINE", 0>>, <<"SWITCH", 0>>, <<"GOTO", 0>>, <<"SWITCH", 1>>,
               <<"GOTO", 1>>>>

\* ------------------------------------------------------------------ C13
\* the calls of the operation `name` made so far, oldest first
CallsOf(name) == SelectSeq(lang.calls, LAMBDA c : c[1] = name)

\* the lowest language of a set
Lowest(S) == CHOOSE l \in S : \A x \in S : l <= x

\* the calls name languages in strictly ascending order
Ascending(cs) ==
    \A k \in 1 .. Len(cs) : \A j \in 1 .. Len(cs) : k < j => cs[k][2] < cs[j][2]

\* C13: when finish has returned, finish_emit has been called exactly once
\* for every language of `present`, in ascending order, whether or not an
\* earlier call failed; the result is Ok iff no call failed and else the
\* error of the lowest failing language.
C13_FinishDrains ==
    lang.pc = "finished" =>
        /\ Ascending(CallsOf("finish_emit"))
        /\ {c[2] : c \in {CallsOf("finish_emit")[k] :
                              k \in 1 .. Len(CallsOf("finish_emit"))}}
              = lang.present
        /\ lang.result =
              IF lang.bad = {} THEN <<"Ok">> ELSE Err(Lowest(lang.bad))

\* finish on three languages of which the second and the third failed
C13_Witness_TwoFail ==
    /\ lang.pc = "finished"
    /\ lang.present = {0, 1, 3}
    /\ lang.bad = {1, 3}
    /\ Len(CallsOf("finish_emit")) = 3
    /\ lang.result = Err(1)

\* ------------------------------------------------------------------ C14
\* how many languages of S come before l
Below(S, l) == Cardinality({x \in S : x < l})

\* C14: the slot new writes the payload of a language to, the slot get_mut
\* computes for it and the slot finish reads it from are all the number of
\* present languages before it; the slots of the present languages are
\* exactly 0 .. |present| - 1, each used once; and a slot is only read as
\* the language whose payload was written to it.
C14_SlotIndex ==
    /\ \A k \in 1 .. Len(lang.calls) :
          LET c == lang.calls[k]
          IN  /\ c[3] = Below(lang.arg, c[2])
              /\ c[1] = "finish_emit" => c[4] = <<c[2]>>
    /\ (Len(lang.got) = 2) =>
          /\ lang.got[2] = Below(lang.present, lang.got[1])
          /\ lang.pc = "live" => lang.data[lang.got[2] + 1] = <<lang.got[1]>>
    /\ lang.pc = "live" =>
          /\ {slot(lang.present, l) : l \in lang.present}
                = 0 .. (Cardinality(lang.present) - 1)
          /\ \A l \in lang.present : \A m \in lang.present :
                slot(lang.present, l) = slot(lang.present, m) => l = m
          /\ \A l \in lang.present :
                lang.data[slot(lang.present, l) + 1] = <<l>>

\* the table of the first and the third language: get_mut of the third
\* found slot 1, and finish read both slots
C14_Witness_Sparse ==
    /\ lang.pc = "finished"
    /\ lang.present = {0, 2}
    /\ lang.got = <<2, 1>>
    /\ Len(CallsOf("finish_emit")) = 2

\* ------------------------------------------------------------------ C15
\* C15: when begin_emit fails in new, new returns the error of the lowest
\* failing language, begin_emit has been called for the languages up to that
\* one and for none after it, there is no LangState, and finish_emit is
\* never called on the payloads made before the failure.
C15_NewAbandons ==
    /\ lang.pc = "failed" =>
          /\ lang.result = Err(Lowest(lang.bad))
          /\ Ascending(CallsOf("begin_emit"))
          /\ {c[2] : c \in {lang.calls[k] : k \in 1 .. Len(lang.calls)}}
                = {l \in lang.arg : l <= Lowest(lang.bad)}
          /\ CallsOf("finish_emit") = <<>>
          /\ lang.present = {}
          /\ lang.data = <<>>
    /\ (lang.pc = "live" /\ lang.result = <<"Ok">>) => lang.bad = {}

\* new on three languages: the first began, the second failed, the third,
\* which would have failed too, was not begun
C15_Witness_SecondFails ==
    /\ lang.pc = "failed"
    /\ lang.arg = {0, 1, 3}
    /\ lang.bad = {1, 3}
    /\ lang.calls = <<<<"begin_emit", 0, 0>>, <<"begin_emit", 1, 1>>>>

\* ------------------------------------------------------------------ C16
\* the flags a byte selects
Selects(b) ==
    IF b = "a" THEN OptFlags
    ELSE {fl \in OptFlags :
            <<b, fl>> \in {<<"f", "FOLD">>, <<"g", "GOTO">>, <<"i", "INLINE">>,
                           <<"l", "LOOP">>, <<"p", "PHI">>, <<"s", "SWITCH">>}}

\* the flags the bytes of arg select between them
Selected(arg) == UNION {Selects(arg[k]) : k \in 1 .. Len(arg)}

RECURSIVE Reversed(_)
Reversed(seq) == IF seq = <<>> THEN <<>> ELSE Append(Reversed(Tail(seq)), Head(seq))

\* C16: parse_optflags returns the union of the flags its bytes select,
\* complemented within the six flags iff the first byte is '-'; a '-'
\* elsewhere and any other byte select nothing; the result does not change
\* when the bytes after the first are reordered or repeated; "-" gives all
\* six flags and "-l" all but LOOP.
C16_ParseOptflags ==
    oflg # <<>> =>
        /\ oflg[1] = IF Len(optarg) > 0 /\ optarg[1] = "-"
                     THEN OptFlags \ Selected(optarg)
                     ELSE Selected(optarg)
        /\ Len(optarg) > 0 =>
              /\ parse_optflags(<<optarg[1]>> \o Reversed(Tail(optarg))) = oflg[1]
              /\ parse_optflags(optarg \o Tail(optarg)) = oflg[1]
        /\ optarg = <<"-">> => oflg[1] = OptFlags
        /\ optarg = <<"-", "l">> => oflg[1] = OptFlags \ {"LOOP"}

\* "l-" has been parsed: the '-' is not the first byte and LOOP alone is set
C16_Witness_DashLater ==
    /\ optarg = <<"l", "-">>
    /\ oflg = <<{"LOOP"}>>

\* ------------------------------------------------------------------ C17
\* C17: get_mut of a language that is not present, on the default LangState
\* or any other, stops at its assertion: no slot index is computed, no
\* reference is returned, and nothing is done with the table afterwards.
C17_AbsentPanics ==
    /\ (lang.got # <<>> /\ lang.got[1] \notin lang.present) =>
          /\ lang.pc = "panic"
          /\ Len(lang.got) = 1
    /\ lang.pc = "panic" =>
          /\ lang.got # <<>>
          /\ lang.got[1] \notin lang.present
          /\ CallsOf("finish_emit") = <<>>

\* get_mut on the default LangState
C17_Witness_Default ==
    /\ lang.pc = "panic"
    /\ lang.present = {}
    /\ lang.result = <<>>
    /\ lang.got = <<0>>

\* get_mut of an absent language on a LangState that holds others
C17_Witness_Absent ==
    /\ lang.pc = "panic"
    /\ lang.present = {0, 2}
    /\ lang.got = <<1>>

\* ------------------------------------------------------------------ C18
\* the old instructions p and q are the same ADD with the operands, once
\* rewritten, the other way round
Mirrored(p, q) ==
    /\ Rewritten(p).op = "ADD"
    /\ Rewritten(q).op = "ADD"
    /\ Rewritten(p).ty = Rewritten(q).ty
    /\ Rewritten(p).a = Rewritten(q).b
    /\ Rewritten(p).b = Rewritten(q).a

\* C18: after a Fold run no ADD or MUL of the new code has a constant as
\* operand a and a non-constant as operand b, and when neither operand is a
\* constant a <= b; an ADD(x, y) and an ADD(y, x) of one type have the same
\* new id.
C18_Canonical ==
    FoldDone =>
        /\ \A n \in Ids(NewFunc.code) :
              LET ins == At(NewFunc.code, n)
              IN  ins.op \in {"ADD", "MUL"} =>
                     /\ ~(~NonConst(ins.a) /\ NonConst(ins.b))
                     /\ (NonConst(ins.a) /\ NonConst(ins.b)) => ins.a <= ins.b
        /\ \A p \in Visited : \A q \in Visited :
              Mirrored(p, q) => At(old_new, p) = At(old_new, q)

\* ADD(x, y) and ADD(y, x) of two parameters were met and became one ADD
C18_Witness_Mirrored ==
    /\ FoldDone
    /\ \E p \in Visited : \E q \in Visited :
          /\ p # q
          /\ Mirrored(p, q)
          /\ Rewritten(p).a # Rewritten(p).b
          /\ NonConst(Rewritten(p).a)
          /\ NonConst(Rewritten(p).b)
          /\ At(NewFunc.code, NewId(p)).op = "ADD"
          /\ NewId(p) = NewId(q)

\* ------------------------------------------------------------------ C19
\* the old ids whose control successors lead back to themselves
OnCycle(f) ==
    {id \in Ids(f.code) :
        /\ is_control(At(f.code, id).op)
        /\ id \in Closure(f.code, Refs(At(f.code, id)))}

\* how many old ids this run has begun to rewrite
RewrittenCount == Cardinality({k \in 1 .. Len(stat.rewrites) : stat.rewrites[k] > 0})

\* C19: a Fold run comes to its end: the rewrite of an old id is begun at
\* most once, fold is called at most twice for any one instruction,
\* the ids taken from the queue and those still in it are at most the entry
\* and two for every old id rewritten so far, so that the while loop makes
\* at most 1 + 2 * (length of the old code) turns, and the queue is empty
\* whenever a run begins: the assertion on it never fires.
C19_Terminates ==
    /\ panic # "debug_assert next"
    /\ pc = "optimize" => next = <<>>
    /\ \A k \in 1 .. Len(stat.rewrites) : stat.rewrites[k] <= 1
    /\ stat.foldcalls <= 2
    /\ pc = "fold" => stat.pops + Len(next) <= 1 + 2 * RewrittenCount
    /\ stat.pops <= 1 + 2 * Len(stat.rewrites)

\* a run on a function with a control cycle has ended, in a build with
\* assertions: an id was taken from the queue and found rewritten already,
\* and an instruction had its operands swapped
C19_Witness_Cycle ==
    /\ FoldDone
    /\ debug
    /\ OnCycle(OldFunc) # {}
    /\ stat.foldcalls = 2
    /\ stat.pops > Cardinality({id \in Visited : is_control(At(OldFunc.code, id).op)})

\* the run after such a run has begun, in a build with assertions
C19_Witness_NextRun ==
    /\ pc = "fold"
    /\ debug
    /\ iters > 1
    /\ OnCycle(input[1]) # {}

\* ------------------------------------------------------------------ C20
\* the while loop of Fold::run has just ended
TraversalDone == pc = "fold" /\ next = <<>>

\* C20: when the traversal of a function ends, old_new is set for exactly
\* the old ids that can be reached from the old entry along operand and
\* control edges of the old code, and the new entry of the function is
\* old_new of the old entry.
C20_VisitedIsReachable ==
    /\ TraversalDone => Visited = Reachable(OldFunc)
    /\ FoldDone =>
          /\ Visited = Reachable(OldFunc)
          /\ NewFunc.entry = NewId(OldFunc.entry)

\* a run has ended that left some old ids unvisited and reached a control
\* instruction other than the entry through the queue, where the new entry
\* is not the old one
C20_Witness_Partial ==
    /\ FoldDone
    /\ Visited # Ids(OldFunc.code)
    /\ \E id \in Visited : is_control(At(OldFunc.code, id).op) /\ id # OldFunc.entry
    /\ NewFunc.entry # OldFunc.entry

\* ------------------------------------------------------------------ C21
\* C21: Fold never grows a function: while a run is under way the new code
\* holds at most one instruction for every old id whose rewrite has begun,
\* after the run the new code is no longer than the old code, and when a
\* call of optimize has returned the IR size is at most what it was when
\* the call began and at most the size the loop remembers.
C21_NeverGrows ==
    /\ pc = "fold" => Len(code) <= RewrittenCount
    /\ FoldDone =>
          /\ Len(NewFunc.code) <= Cardinality(Visited)
          /\ Len(NewFunc.code) <= Len(OldFunc.code)
    /\ OptimizeDone =>
          /\ irsize(ir) <= before
          /\ irsize(ir) <= size

\* a run has ended that folded an addition of two constants into a constant
\* the old code did not hold, and the new code is as long as the old
C21_Witness_NewConstant ==
    /\ FoldDone
    /\ IsArith(OldFunc)
    /\ \A id \in Ids(OldFunc.code) : At(OldFunc.code, id) # Returned
    /\ is_const(Returned.op)
    /\ Len(NewFunc.code) = Len(OldFunc.code)

\* ------------------------------------------------------------------ C22
\* the buffers hold nothing but what the run under way has put there
OwnScratch ==
    /\ Len(old_new) = Len(At(ir, fid).code)
    /\ \A id \in Ids(old_new) :
          At(old_new, id) # <<>> =>
              /\ stat.rewrites[id + 1] = 1
              /\ At(old_new, id)[1] \in Ids(code)
    /\ cse_map \subseteq Ids(code)
    /\ Len(code) <= RewrittenCount

\* a step of a Fold run leaves every function but the one it runs on as
\* it was
OthersKept ==
    (pc = "fold" \/ pc' = "fold") =>
        /\ Len(ir') = Len(ir)
        /\ \A k \in 1 .. Len(ir) : k # fid + 1 => ir'[k] = ir[k]

\* C22: a Fold run on function fid leaves the code and the entry of every
\* other function as they were; before its first visit old_new is all
\* unset, the CSE table and the new code are empty and the queue holds the
\* entry alone; and during the run every set old_new entry and every CSE
\* entry is one this run has made.
C22_FoldFrame ==
    /\ [](pc = "fold" =>
            /\ OwnScratch
            /\ stat.pops = 0 =>
                  /\ \A id \in Ids(old_new) : At(old_new, id) = <<>>
                  /\ cse_map = {}
                  /\ code = <<>>
                  /\ next = <<At(ir, fid).entry>>)
    /\ [][OthersKept]_vars

\* the run on the second function has ended: both functions were changed,
\* each by its own run, and the first is as its run left it
C22_Witness_Second ==
    /\ FoldDone
    /\ fid = 2
    /\ i = 0
    /\ ir[1] # input[1]
    /\ ir[2] # input[2]
    /\ Len(ir[1].code) # Len(ir[2].code)

\* ------------------------------------------------------------------ C23
\* every operand of every instruction of a code vector lies before it
Topological(vec) ==
    \A p \in Ids(vec) :
        \A k \in 1 .. Len(inputs(At(vec, p).op)) :
            At(vec, p)[inputs(At(vec, p).op)[k]] < p

\* C23: during a Fold run and at its end the new code is in topological
\* order of its operand edges, every operand at position p being less than
\* p, and no pattern check of fold reads past the end of the new code.
C23_Topological ==
    /\ pc = "fold" => Topological(code)
    /\ FoldDone => Topological(NewFunc.code)
    /\ panic # "index out of bounds"

\* a run has ended whose new code holds an arithmetic instruction that the
\* pattern checks were made on more than once, at a lower id than it had and
\* with other operand ids than it had
C23_Witness_Renumbered ==
    /\ FoldDone
    /\ stat.foldcalls >= 2
    /\ \E q \in Ids(OldFunc.code) :
          /\ At(old_new, q) # <<>>
          /\ At(old_new, q)[1] < q
          /\ At(old_new, q)[1] \in Ids(NewFunc.code)
          /\ At(NewFunc.code, At(old_new, q)[1]).op \in ArithOps
          /\ At(NewFunc.code, At(old_new, q)[1]).op = At(OldFunc.code, q).op
          /\ At(NewFunc.code, At(old_new, q)[1]).a # At(OldFunc.code, q).a

=============================================================================
